---- MODULE Spec2Model ----
(***************************************************************************)
(* Model of the e-mail worker of src/main.py: several bot processes, each  *)
(* with its own IS_SENDING flag and asyncio event loop, pull leads from    *)
(* one shared Firebase node ('scraped_emails'), mark a lead with           *)
(* processing_by, rewrite the template, call the delivery endpoint and     *)
(* write the outcome back.                                                 *)
(***************************************************************************)
EXTENDS Integers, Sequences, FiniteSets, TLC

\* ---------------------------------------------------------------- bounds
NProcs == 2          \* bot processes sharing the store
MaxJobs == 2         \* email_worker jobs alive at once (all processes)
MaxLeads == 2        \* records under 'scraped_emails'
NKeys == 2           \* largest GEMINI_KEYS pool
MaxTime == 6         \* time stamps (minutes) of the selection inputs

LeaseDuration == 5   \* minutes, the lease duration of the specification

Procs == 1..NProcs
Jobs == 1..MaxJobs
None == "None"
NoTime == 0 - 1      \* a time stamp that is absent
NoKey == 0 - 1       \* no credential taken yet

VARIABLES
    store,              \* db 'scraped_emails': the leads, in key order
    config,             \* db 'shared_config/email_template'
    GEMINI_KEYS,        \* size of the credential pool
    IS_SENDING,         \* per process: the global run flag
    CURRENT_KEY_INDEX,  \* per process: the round-robin cursor
    running,            \* per process: the job that holds the event loop, or 0
    proc,               \* per job: its process, 0 when the slot is free
    pc,                 \* per job: position in email_worker
    target_key,         \* per job: local target_key, 0 when unset
    count,              \* per job: local count
    res,                \* per job: local res.get("status")
    tries,              \* per job: attempts made by the rewrite call in flight
    api_key,            \* per job: local api_key of the rewrite call (an index)
    mail,               \* per job: (final_subject, ai_body), the rewrite's result
    batch,              \* selection input: an ordered page of records
    now,                \* selection input: the current time
    picked,             \* selection output: the key chosen, 0 for None, -1 before
    reply,              \* dispatch input: what the delivery endpoint answers
    outcome             \* dispatch output: how the worker takes that answer

vars == <<store, config, GEMINI_KEYS, IS_SENDING, CURRENT_KEY_INDEX, running,
          proc, pc, target_key, count, res, tries, api_key, mail,
          batch, now, picked, reply, outcome>>

jobvars == <<proc, pc, target_key, count, res, tries, api_key, mail>>
selvars == <<batch, now, picked, reply, outcome>>

\* ------------------------------------------------------------ the store
\* A lead as the worker sees it; a field that is absent reads as None.
NewLead ==
    [status |-> None, processing_by |-> None, sent_by |-> None,
     sent_at |-> None, lease_timestamp |-> NoTime, app_name |-> None]

\* TOKEN.split(':')[0]: every process runs under its own bot token.
bot_id(p) == ToString(p)

\* leads_ref.child(k).update({...}): only the fields named are written.
UpdateClaim(s, k, id) ==
    [s EXCEPT ![k] = [@ EXCEPT !.processing_by = id]]

\* As UpdateSent, but the claim is left on the record.
UpdateSentKeepingClaim(s, k, id) ==
    [s EXCEPT ![k] = [@ EXCEPT !.status = "sent", !.sent_at = "set",
                               !.sent_by = id]]

UpdateSent(s, k, id) ==
    [s EXCEPT ![k] = [@ EXCEPT !.status = "sent", !.sent_at = "set",
                               !.sent_by = id, !.processing_by = None]]

\* As UpdateRelease, but nothing is written.
UpdateReleaseKeepingClaim(s, k) == s

UpdateRelease(s, k) ==
    [s EXCEPT ![k] = [@ EXCEPT !.processing_by = None]]

\* ------------------------------------------------------------ selection
\* As Eligible, without the test of the status.
EligibleIgnoringStatus(v) == v.processing_by = None

\* As Eligible, without the test of processing_by.
EligibleIgnoringClaim(v) == v.status = None

\* v.get('status') is None and v.get('processing_by') is None
Eligible(v) == v.status = None /\ v.processing_by = None

\* next((k for k, v in all_leads.items() if ...), None); 0 stands for None.
RECURSIVE FirstFrom(_, _)
FirstFrom(all_leads, k) ==
    IF k > Len(all_leads) THEN 0
    ELSE IF Eligible(all_leads[k]) THEN k
    ELSE FirstFrom(all_leads, k + 1)

\* As SelectTarget, but no lead is ever found.
SelectNothing(all_leads) == 0

SelectTarget(all_leads) == FirstFrom(all_leads, 1)

\* ------------------------------------------------------------- the text
\* Texts are sequences of words; '{app_name}' is one word.
Template ==
    [subject |-> <<"Boost", "{app_name}">>,
     body |-> <<"Installs", "for", "{app_name}", "today">>]

NoMail == [subject |-> <<>>, body |-> <<>>]

\* str.replace(old, new): every occurrence is replaced.
Replace(text, old, new) ==
    [i \in 1..Len(text) |-> IF text[i] = old THEN new ELSE text[i]]

\* Line 198: target_data.get('app_name', 'your app')
AppName(lead) == IF lead.app_name = None THEN "your app" ELSE lead.app_name

\* Lines 201-202: orig_sub and orig_body.
OrigSub(lead) == Replace(Template.subject, "{app_name}", AppName(lead))
OrigBody(lead) == Replace(Template.body, "{app_name}", AppName(lead))

\* What a response holding the delimiter is parsed into (lines 118-124).
AiMail == [subject |-> <<"ai", "subject">>, body |-> <<"ai", "body">>]

\* As ReturnOriginal, but nothing is handed back.
ReturnBlank(original_sub, original_body) == NoMail

\* Lines 86 and 129: return original_sub, original_body
ReturnOriginal(original_sub, original_body) ==
    [subject |-> original_sub, body |-> original_body]

\* Line 209: the hidden reference is appended to the body.
FinalBody(ai_body) == Append(ai_body, "ref")

\* As KeyAt, but the cursor is ignored.
KeyAlwaysFirst(index, n) == 0

\* Line 76: GEMINI_KEYS[CURRENT_KEY_INDEX % len(GEMINI_KEYS)], as an index.
KeyAt(index, n) == index % n

\* ------------------------------------------------------------ job slots
FreeJobs == {j \in Jobs : proc[j] = 0}
FirstFree == CHOOSE j \in FreeJobs : \A i \in FreeJobs : j <= i

\* The job returns (or its exception leaves email_worker): the slot is free.
Retire(j) ==
    /\ proc' = [proc EXCEPT ![j] = 0]
    /\ pc' = [pc EXCEPT ![j] = "idle"]
    /\ target_key' = [target_key EXCEPT ![j] = 0]
    /\ count' = [count EXCEPT ![j] = 0]
    /\ res' = [res EXCEPT ![j] = None]
    /\ tries' = [tries EXCEPT ![j] = 0]
    /\ api_key' = [api_key EXCEPT ![j] = NoKey]
    /\ mail' = [mail EXCEPT ![j] = NoMail]

\* A job may run when its process's event loop is free or it holds the loop.
Suspended(j) == proc[j] # 0 /\ running[proc[j]] = 0
Holding(j) == proc[j] # 0 /\ running[proc[j]] = j

\* -------------------------------------------------------------- handlers
\* button_tap, 'btn_start_send'
StartSend(p) ==
    /\ running[p] = 0
    /\ IF ~IS_SENDING[p]
       THEN /\ FreeJobs # {}
            /\ IS_SENDING' = [IS_SENDING EXCEPT ![p] = TRUE]
            /\ proc' = [proc EXCEPT ![FirstFree] = p]
            /\ pc' = [pc EXCEPT ![FirstFree] = "scheduled"]
            /\ UNCHANGED <<target_key, count, res, tries, api_key, mail>>
       ELSE UNCHANGED <<IS_SENDING, jobvars>>
    /\ UNCHANGED <<store, config, GEMINI_KEYS, CURRENT_KEY_INDEX, running, selvars>>

\* button_tap, 'btn_stop_send'
StopSend(p) ==
    /\ running[p] = 0
    /\ IS_SENDING' = [IS_SENDING EXCEPT ![p] = FALSE]
    /\ UNCHANGED <<store, config, GEMINI_KEYS, CURRENT_KEY_INDEX, running,
                   jobvars, selvars>>

\* ----------------------------------------------------------- email_worker
\* As TemplateMissing, but the template is taken to be there.
TemplateNeverMissing(c) == FALSE

\* Line 174: not config
TemplateMissing(c) == c = None

\* As LoopCondition, but the flag is not read.
LoopForever(p) == TRUE

\* Line 186: while IS_SENDING
LoopCondition(p) == IS_SENDING[p]

\* As PageExhausted, but an empty page is not told from the others.
PageNeverExhausted(all_leads) == FALSE

\* Line 188: not all_leads
PageExhausted(all_leads) == Len(all_leads) = 0

\* Lines 171-184: read the template; without one, or when the read raises,
\* report (an await) first.
Begin(j) ==
    /\ pc[j] = "scheduled" /\ Suspended(j)
    /\ \E read_ok \in BOOLEAN :
          pc' = [pc EXCEPT ![j] = IF read_ok /\ ~TemplateMissing(config)
                                  THEN "loop" ELSE "noconfig"]
    /\ count' = [count EXCEPT ![j] = 0]
    /\ UNCHANGED <<store, config, GEMINI_KEYS, IS_SENDING, CURRENT_KEY_INDEX,
                   running, proc, target_key, res, tries, api_key, mail,
                   selvars>>

\* Lines 176-177: IS_SENDING = False; return
NoConfig(j) ==
    /\ pc[j] = "noconfig" /\ Suspended(j)
    /\ IS_SENDING' = [IS_SENDING EXCEPT ![proc[j]] = FALSE]
    /\ Retire(j)
    /\ UNCHANGED <<store, config, GEMINI_KEYS, CURRENT_KEY_INDEX, running, selvars>>

\* Lines 186-193: the loop test, the read of the leads and the selection.
\* The job arrives here from the start or from one of its two sleeps.
LoopTop(j) ==
    /\ pc[j] \in {"loop", "pace", "backoff"} /\ Suspended(j)
    /\ LET p == proc[j]
           k == SelectTarget(store)
       IN  IF ~LoopCondition(p) \/ PageExhausted(store)
           THEN /\ IS_SENDING' = [IS_SENDING EXCEPT ![p] = FALSE]
                /\ pc' = [pc EXCEPT ![j] = "report"]
                /\ UNCHANGED <<running, target_key>>
           ELSE IF k = 0
           THEN /\ pc' = [pc EXCEPT ![j] = "alldone"]
                /\ UNCHANGED <<IS_SENDING, running, target_key>>
           ELSE /\ pc' = [pc EXCEPT ![j] = "claim"]
                /\ target_key' = [target_key EXCEPT ![j] = k]
                /\ running' = [running EXCEPT ![p] = j]
                /\ UNCHANGED IS_SENDING
    /\ UNCHANGED <<store, config, GEMINI_KEYS, CURRENT_KEY_INDEX, proc, count,
                   res, tries, api_key, mail, selvars>>

\* Lines 192-193 then 228: after the "all sent" message, break.
AllDone(j) ==
    /\ pc[j] = "alldone" /\ Suspended(j)
    /\ IS_SENDING' = [IS_SENDING EXCEPT ![proc[j]] = FALSE]
    /\ pc' = [pc EXCEPT ![j] = "report"]
    /\ UNCHANGED <<store, config, GEMINI_KEYS, CURRENT_KEY_INDEX, running, proc,
                   target_key, count, res, tries, api_key, mail, selvars>>

\* Line 195: leads_ref.child(target_key).update({'processing_by': bot_id})
Claim(j) ==
    /\ pc[j] = "claim" /\ Holding(j)
    /\ store' = UpdateClaim(store, target_key[j], bot_id(proc[j]))
    /\ pc' = [pc EXCEPT ![j] = "rewrite"]
    /\ tries' = [tries EXCEPT ![j] = 0]
    /\ UNCHANGED <<config, GEMINI_KEYS, IS_SENDING, CURRENT_KEY_INDEX, running,
                   proc, target_key, count, res, api_key, mail, selvars>>

\* Line 205, rewrite_email_with_ai: one credential per attempt; a failed
\* attempt sleeps one second (the job lets go of the event loop). Without
\* credentials, or after the last failed attempt, the original pair comes
\* back. The attempt counter is dead once the call returns: it is cleared;
\* api_key is kept for the attempt that was answered and is dead during the
\* sleep that follows a failed one.
Rewrite(j) ==
    /\ \/ pc[j] = "rewrite" /\ Holding(j)
       \/ pc[j] = "rewrite_sleep" /\ Suspended(j)
    /\ LET p == proc[j]
           lead == store[target_key[j]]
       IN
       IF tries[j] >= GEMINI_KEYS
       THEN /\ pc' = [pc EXCEPT ![j] = "dispatch"]
            /\ running' = [running EXCEPT ![p] = j]
            /\ mail' = [mail EXCEPT
                          ![j] = ReturnOriginal(OrigSub(lead), OrigBody(lead))]
            /\ tries' = [tries EXCEPT ![j] = 0]
            /\ UNCHANGED <<CURRENT_KEY_INDEX, api_key>>
       ELSE /\ CURRENT_KEY_INDEX' =
                [CURRENT_KEY_INDEX EXCEPT ![p] = (@ + 1) % GEMINI_KEYS]
            /\ \E ok \in BOOLEAN :
                 IF ok
                 THEN /\ pc' = [pc EXCEPT ![j] = "dispatch"]
                      /\ running' = [running EXCEPT ![p] = j]
                      /\ api_key' = [api_key EXCEPT
                            ![j] = KeyAt(CURRENT_KEY_INDEX[p], GEMINI_KEYS)]
                      /\ mail' = [mail EXCEPT ![j] = AiMail]
                      /\ tries' = [tries EXCEPT ![j] = 0]
                 ELSE /\ pc' = [pc EXCEPT ![j] = "rewrite_sleep"]
                      /\ running' = [running EXCEPT ![p] = 0]
                      /\ tries' = [tries EXCEPT ![j] = @ + 1]
                      /\ UNCHANGED <<api_key, mail>>
    /\ UNCHANGED <<store, config, GEMINI_KEYS, IS_SENDING, proc, target_key,
                   count, res, selvars>>

\* What the delivery endpoint may answer: whether a GAS URL is configured,
\* the status code (0: requests.post raised) and what the body holds
\* ("garbage" does not parse, "null" parses to something that is no object).
TransportError == 0
HttpCodes == {200, 201, 204, 404, 500}
Bodies == {"garbage", "success", "error", "nostatus", "null"}
Replies == [url : BOOLEAN, code : {TransportError} \cup HttpCodes, body : Bodies]

\* Lines 143-150, call_gas_api: what is returned, named by its content.
call_gas_api(r) ==
    IF ~r.url THEN "error"
    ELSE IF r.code = TransportError THEN "error"
    ELSE IF r.code = 200
         THEN IF r.body = "garbage" THEN "error" ELSE r.body
    ELSE "error"

\* Lines 145-147: requests.post is called once, when there is a URL.
NetworkCalls(r) == IF r.url THEN 1 ELSE 0

\* Lines 211-213: res.get("status") == "success"; what is no dict has no
\* get, and the AttributeError leaves email_worker.
SendOutcome(r) ==
    LET returned == call_gas_api(r) IN
    IF returned = "null" THEN "raise"
    ELSE IF returned = "success" THEN "success"
    ELSE "error"

\* Lines 211-213: res = call_gas_api(...), a blocking call, and the test of
\* its status; the exception of the test ends the job with its claim on
\* the record. The texts and api_key are dead once sent: they are cleared.
Dispatch(j) ==
    /\ pc[j] = "dispatch" /\ Holding(j)
    /\ \E o \in {SendOutcome(r) : r \in Replies} :
          IF o = "raise"
          THEN /\ running' = [running EXCEPT ![proc[j]] = 0]
               /\ Retire(j)
          ELSE /\ res' = [res EXCEPT ![j] = o]
               /\ pc' = [pc EXCEPT ![j] = "finalize"]
               /\ api_key' = [api_key EXCEPT ![j] = NoKey]
               /\ mail' = [mail EXCEPT ![j] = NoMail]
               /\ UNCHANGED <<running, proc, target_key, count, tries>>
    /\ UNCHANGED <<store, config, GEMINI_KEYS, IS_SENDING, CURRENT_KEY_INDEX,
                   selvars>>

\* Lines 213-226: the outcome is written back, then the job sleeps. The
\* locals target_key and res are dead from
\* here until the next iteration binds them again: they are cleared.
Finalize(j) ==
    /\ pc[j] = "finalize" /\ Holding(j)
    /\ IF res[j] = "success"
       THEN /\ store' = UpdateSent(store, target_key[j], bot_id(proc[j]))
            /\ count' = [count EXCEPT ![j] = @ + 1]
            /\ pc' = [pc EXCEPT ![j] = "pace"]
       ELSE /\ store' = UpdateRelease(store, target_key[j])
            /\ pc' = [pc EXCEPT ![j] = "backoff"]
            /\ UNCHANGED count
    /\ running' = [running EXCEPT ![proc[j]] = 0]
    /\ target_key' = [target_key EXCEPT ![j] = 0]
    /\ res' = [res EXCEPT ![j] = None]
    /\ UNCHANGED <<config, GEMINI_KEYS, IS_SENDING, CURRENT_KEY_INDEX, proc,
                   tries, api_key, mail, selvars>>

\* A store call raises (lines 187, 195, 214, 225): nothing in email_worker
\* catches it, the job ends there and the flag keeps its value.
StoreError(j) ==
    /\ \/ pc[j] \in {"loop", "pace", "backoff"} /\ Suspended(j)
                                                /\ LoopCondition(proc[j])
       \/ pc[j] \in {"claim", "finalize"} /\ Holding(j)
    /\ running' = [running EXCEPT ![proc[j]] = 0]
    /\ Retire(j)
    /\ UNCHANGED <<store, config, GEMINI_KEYS, IS_SENDING, CURRENT_KEY_INDEX,
                   selvars>>

\* Line 229: the final report has been sent and the job returns.
Return(j) ==
    /\ pc[j] = "report" /\ Suspended(j)
    /\ Retire(j)
    /\ UNCHANGED <<store, config, GEMINI_KEYS, IS_SENDING, CURRENT_KEY_INDEX,
                   running, selvars>>

\* ------------------------------------------------------------------ spec
\* No process has been told to send and no job exists.
NothingRuns ==
    /\ IS_SENDING = [p \in Procs |-> FALSE]
    /\ CURRENT_KEY_INDEX = [p \in Procs |-> 0]
    /\ running = [p \in Procs |-> 0]
    /\ proc = [j \in Jobs |-> 0]
    /\ pc = [j \in Jobs |-> "idle"]
    /\ target_key = [j \in Jobs |-> 0]
    /\ count = [j \in Jobs |-> 0]
    /\ res = [j \in Jobs |-> None]
    /\ tries = [j \in Jobs |-> 0]
    /\ api_key = [j \in Jobs |-> NoKey]
    /\ mail = [j \in Jobs |-> NoMail]

\* The first lead names its application, the others do not.
Backlog(n) ==
    [k \in 1..n |-> IF k = 1 THEN [NewLead EXCEPT !.app_name = "App"]
                    ELSE NewLead]

\* No selection and no dispatch is under test.
NoReply == [url |-> FALSE, code |-> TransportError, body |-> "garbage"]
NoOutcome == [result |-> "unset", calls |-> 0]

NothingTested ==
    /\ batch = <<>>
    /\ now = 0
    /\ picked = 0 - 1
    /\ reply = NoReply
    /\ outcome = NoOutcome

Init ==
    /\ \E n \in 0..MaxLeads : store = Backlog(n)
    /\ config \in {None, "template"}
    /\ GEMINI_KEYS \in 0..NKeys
    /\ NothingRuns
    /\ NothingTested

Next ==
    \/ \E p \in Procs : StartSend(p)
    \/ \E p \in Procs : StopSend(p)
    \/ \E j \in Jobs : Begin(j)
    \/ \E j \in Jobs : NoConfig(j)
    \/ \E j \in Jobs : LoopTop(j)
    \/ \E j \in Jobs : AllDone(j)
    \/ \E j \in Jobs : Claim(j)
    \/ \E j \in Jobs : Rewrite(j)
    \/ \E j \in Jobs : Dispatch(j)
    \/ \E j \in Jobs : Finalize(j)
    \/ \E j \in Jobs : StoreError(j)
    \/ \E j \in Jobs : Return(j)

Spec == Init /\ [][Next]_vars

\* Every job that can take a step of email_worker eventually takes one (the
\* event loop resumes a coroutine that is ready), and the operator presses
\* 'Start Sending' again whenever a process's flag is down.
JobStep(j) ==
    \/ Begin(j) \/ NoConfig(j) \/ LoopTop(j) \/ AllDone(j) \/ Claim(j)
    \/ Rewrite(j) \/ Dispatch(j) \/ Finalize(j) \/ Return(j)

FairSpec ==
    /\ Init /\ [][Next]_vars
    /\ \A j \in Jobs : WF_vars(JobStep(j))
    /\ \A p \in Procs : WF_vars(StartSend(p))

\* A single worker: only the first bot process is ever started.
NextOne ==
    \/ StartSend(1)
    \/ StopSend(1)
    \/ \E j \in Jobs : Begin(j)
    \/ \E j \in Jobs : NoConfig(j)
    \/ \E j \in Jobs : LoopTop(j)
    \/ \E j \in Jobs : AllDone(j)
    \/ \E j \in Jobs : Claim(j)
    \/ \E j \in Jobs : Rewrite(j)
    \/ \E j \in Jobs : Dispatch(j)
    \/ \E j \in Jobs : Finalize(j)
    \/ \E j \in Jobs : StoreError(j)
    \/ \E j \in Jobs : Return(j)

SpecOne == Init /\ [][NextOne]_vars

\* The single worker under the event loop alone: a job that is ready is
\* resumed; nothing is assumed of the operator or of the store's errors.
LiveOne ==
    /\ Init /\ [][NextOne]_vars
    /\ \A j \in Jobs : WF_vars(JobStep(j))

\* ------------------------------------------------------------- the drain
\* One worker whose template is there and read, whose every delivery is
\* answered with success, which is never told to stop and whose store
\* answers every call.
InitDrain ==
    /\ \E n \in 0..MaxLeads : store = Backlog(n)
    /\ config = "template"
    /\ GEMINI_KEYS \in 0..NKeys
    /\ NothingRuns
    /\ NothingTested

BeginDrain(j) == Begin(j) /\ pc'[j] = "loop"

DispatchOk(j) == Dispatch(j) /\ res'[j] = "success"

DrainStep(j) ==
    \/ BeginDrain(j) \/ LoopTop(j) \/ AllDone(j) \/ Claim(j) \/ Rewrite(j)
    \/ DispatchOk(j) \/ Finalize(j) \/ Return(j)

NextDrain ==
    \/ StartSend(1)
    \/ \E j \in Jobs : BeginDrain(j)
    \/ \E j \in Jobs : LoopTop(j)
    \/ \E j \in Jobs : AllDone(j)
    \/ \E j \in Jobs : Claim(j)
    \/ \E j \in Jobs : Rewrite(j)
    \/ \E j \in Jobs : DispatchOk(j)
    \/ \E j \in Jobs : Finalize(j)
    \/ \E j \in Jobs : Return(j)

\* The event loop resumes a job that is ready.
SpecDrain ==
    /\ InitDrain /\ [][NextDrain]_vars
    /\ \A j \in Jobs : WF_vars(DrainStep(j))

\* ---------------------------------------------------- the dispatch by itself
\* call_gas_api and the test of line 213 applied to every reply of the
\* delivery endpoint.
InitGas ==
    /\ store = <<>>
    /\ config = None
    /\ GEMINI_KEYS = 0
    /\ NothingRuns
    /\ batch = <<>>
    /\ now = 0
    /\ picked = 0 - 1
    /\ reply \in Replies
    /\ outcome = NoOutcome

Send ==
    /\ outcome = NoOutcome
    /\ outcome' = [result |-> SendOutcome(reply), calls |-> NetworkCalls(reply)]
    /\ UNCHANGED <<store, config, GEMINI_KEYS, IS_SENDING, CURRENT_KEY_INDEX,
                   running, jobvars, batch, now, picked, reply>>

NextGas == Send

SpecGas == InitGas /\ [][NextGas]_vars

\* ------------------------------------------------- the selection by itself
\* The selection of line 190 applied to every page of leads: the leads are
\* written by other programs too, so every field may hold any value.
Leads ==
    [status : {None, "sent"},
     processing_by : {None} \cup {bot_id(p) : p \in Procs},
     sent_by : {None}, sent_at : {None},
     lease_timestamp : {NoTime} \cup (0..MaxTime), app_name : {None}]

Batches == UNION {[1..n -> Leads] : n \in 0..MaxLeads}

InitSel ==
    /\ store = <<>>
    /\ config = None
    /\ GEMINI_KEYS = 0
    /\ NothingRuns
    /\ batch \in Batches
    /\ now \in 0..MaxTime
    /\ picked = 0 - 1
    /\ reply = NoReply
    /\ outcome = NoOutcome

Pick ==
    /\ picked = 0 - 1
    /\ picked' = SelectTarget(batch)
    /\ UNCHANGED <<store, config, GEMINI_KEYS, IS_SENDING, CURRENT_KEY_INDEX,
                   running, jobvars, batch, now, reply, outcome>>

NextSel == Pick

SpecSel == InitSel /\ [][NextSel]_vars

\* ------------------------------------------------------------------ claims
\* A job is in flight on its target between its claim write (line 195) and
\* its finalize or release write (lines 214, 225).
InFlight(j) ==
    proc[j] # 0 /\ pc[j] \in {"rewrite", "rewrite_sleep", "dispatch", "finalize"}

\* The steps of a job, told by the positions they join.
ClaimStep(j) == pc[j] = "claim" /\ pc'[j] = "rewrite"
DispatchStep(j) == pc[j] = "dispatch" /\ pc'[j] = "finalize"
SuccessFinalizeStep(j) ==
    pc[j] = "finalize" /\ res[j] = "success" /\ pc'[j] = "pace"

\* C1: no two workers (jobs of different processes) are in flight on the
\* same record at the same time.
MutualExclusion ==
    \A i, j \in Jobs :
        (InFlight(i) /\ InFlight(j) /\ proc[i] # proc[j])
            => target_key[i] # target_key[j]

\* The record is unsent and carries the claim of a worker none of whose jobs
\* is in flight on it: the claimant died between claim and finalize.
Stranded(k) ==
    /\ k <= Len(store)
    /\ store[k].status = None
    /\ store[k].processing_by # None
    /\ ~ \E j \in Jobs : /\ InFlight(j)
                         /\ target_key[j] = k
                         /\ bot_id(proc[j]) = store[k].processing_by

\* Some job has just read the page of leads (it stands after line 190).
PageRead == \E j \in Jobs : pc[j] \in {"claim", "alldone"}

\* C2: provided workers keep reading the page, a record left claimed by a
\* worker that died does not stay so for ever: it is released, sent or held
\* by a live claimant again.
NoPermanentStranding ==
    ([]<>PageRead) => \A k \in 1..MaxLeads : Stranded(k) ~> ~Stranded(k)

\* C3: once a record's stored status is sent, no job writes a claim onto it
\* and no job issues a dispatch call for it.
SentIsTerminal ==
    [][\A j \in Jobs :
          (proc[j] # 0 /\ target_key[j] > 0
               /\ store[target_key[j]].status = "sent")
              => ~ClaimStep(j) /\ ~DispatchStep(j)]_vars

\* C4: no job performs the success finalization on a record whose stored
\* status is already sent.
NoSecondSuccessFinalization ==
    [][\A j \in Jobs :
          SuccessFinalizeStep(j) => store[target_key[j]].status # "sent"]_vars

\* C5: the key chosen by the selection is never the key of a record whose
\* status in the batch is sent.
SelectionNeverReturnsSent ==
    picked > 0 => batch[picked].status # "sent"

\* C5, witness: a record was chosen after a sent one with no claim on it.
SentRecordSkipped ==
    /\ picked > 1
    /\ \E k \in 1..(picked - 1) :
          batch[k].status = "sent" /\ batch[k].processing_by = None

\* The lease of the record is absent or older than the lease duration.
Expired(v, t) ==
    v.lease_timestamp = NoTime \/ t - v.lease_timestamp > LeaseDuration

\* The record is eligible under the selection rule of the specification.
LeaseEligible(v, t) ==
    v.status # "sent" /\ (v.processing_by = None \/ Expired(v, t))

\* C6: an unsent record with a claim whose lease is expired or absent is
\* the one selected when no earlier record of the batch is eligible.
ExpiryOverridesOwnership ==
    picked >= 0 =>
        \A k \in 1..Len(batch) :
            (/\ batch[k].status # "sent"
             /\ batch[k].processing_by # None
             /\ Expired(batch[k], now)
             /\ \A i \in 1..(k - 1) : ~LeaseEligible(batch[i], now))
                => picked = k

\* The record carries a claim whose lease is less than the lease duration old.
ActivelyLeased(v, t) ==
    /\ v.processing_by # None
    /\ v.lease_timestamp # NoTime
    /\ t - v.lease_timestamp < LeaseDuration

\* C7: the selection never returns an actively leased record, and it
\* returns the first record of the batch that is unsent and unclaimed.
ActiveLeaseExclusion ==
    picked >= 0 =>
        /\ picked > 0 => ~ActivelyLeased(batch[picked], now)
        /\ \A k \in 1..Len(batch) :
              (/\ batch[k].status # "sent" /\ batch[k].processing_by = None
               /\ \A i \in 1..(k - 1) :
                     batch[i].status = "sent" \/ batch[i].processing_by # None)
                  => picked = k

\* C7, witness: a record was chosen after an unsent, actively leased one.
ActiveLeaseSkipped ==
    /\ picked > 1
    /\ batch[1].status # "sent"
    /\ ActivelyLeased(batch[1], now)

\* C8: in the store a record has processing_by set exactly when it has
\* lease_timestamp set.
LeaseFieldsPaired ==
    \A k \in 1..Len(store) :
        (store[k].processing_by # None) <=> (store[k].lease_timestamp # NoTime)

\* The job is about to read a page that is not empty and holds no eligible
\* record, every unsent record of it being claimed by another worker.
AllLeasedPage(j) ==
    /\ pc[j] \in {"loop", "pace", "backoff"} /\ Suspended(j)
    /\ IS_SENDING[proc[j]]
    /\ Len(store) > 0
    /\ SelectTarget(store) = 0
    /\ \E k \in 1..Len(store) : store[k].status = None
    /\ \A k \in 1..Len(store) :
          store[k].status = None
              => store[k].processing_by \notin {None, bot_id(proc[j])}

\* C9: a job that reads a page whose unsent records are all claimed by other
\* workers does not take the way out of the loop.
AllLeasedPageKeepsLooping ==
    [][\A j \in Jobs : AllLeasedPage(j) => pc'[j] # "alldone"]_vars

\* C10: the success finalization leaves the record sent, sent_by this
\* worker and unclaimed, adds one to the job's count and changes no other
\* record.
SuccessOutcome ==
    [][\A j \in Jobs :
          SuccessFinalizeStep(j) =>
              LET k == target_key[j] IN
              /\ store'[k].status = "sent"
              /\ store'[k].sent_by = bot_id(proc[j])
              /\ store'[k].processing_by = None
              /\ count'[j] = count[j] + 1
              /\ Len(store') = Len(store)
              /\ \A i \in 1..Len(store) : i # k => store'[i] = store[i]]_vars

\* C10, witness: a single worker has finalized its first record as sent.
SingleWorkerSent ==
    \E j \in Jobs :
        /\ pc[j] = "pace" /\ count[j] = 1
        /\ \A i \in Jobs : i # j => proc[i] = 0
        /\ Len(store) > 0
        /\ store[1].status = "sent"
        /\ store[1].sent_by = bot_id(proc[j])
        /\ \A k \in 1..Len(store) : store[k].processing_by = None

\* The release of a job whose dispatch call reported a failure.
FailureFinalizeStep(j) ==
    pc[j] = "finalize" /\ res[j] # "success" /\ pc'[j] \in {"pace", "backoff"}

\* C11: the release after a failed dispatch leaves the record's status
\* unset, clears its claim, leaves the job's count and every other record as
\* they were, and puts the job into the failure backoff; the record is
\* eligible again.
FailureOutcome ==
    [][\A j \in Jobs :
          FailureFinalizeStep(j) =>
              LET k == target_key[j] IN
              /\ store[k].status = None
              /\ store'[k].status = None
              /\ store'[k].processing_by = None
              /\ Eligible(store'[k])
              /\ count'[j] = count[j]
              /\ pc'[j] = "backoff"
              /\ Len(store') = Len(store)
              /\ \A i \in 1..Len(store) : i # k => store'[i] = store[i]]_vars

\* C11, witness: a worker that has sent nothing sits in the failure backoff
\* and the first record is eligible again.
ReleasedAfterFailure ==
    \E j \in Jobs :
        /\ pc[j] = "backoff" /\ count[j] = 0
        /\ Len(store) > 0
        /\ Eligible(store[1])
        /\ \A k \in 1..Len(store) : store[k].processing_by = None

\* The job is about to read the leads, with its flag up.
AtFetch(j) ==
    /\ pc[j] \in {"loop", "pace", "backoff"} /\ Suspended(j)
    /\ IS_SENDING[proc[j]]

\* C12: a job that reads an empty page goes to its exit with the flag down,
\* the store and its count as they were; from the exit it only returns, and
\* reads, claims and dispatches nothing more.
EmptyBacklogStops ==
    [][\A j \in Jobs :
          /\ (AtFetch(j) /\ Len(store) = 0 /\ pc'[j] \notin {pc[j], "idle"})
                => /\ pc'[j] = "report"
                   /\ ~IS_SENDING'[proc[j]]
                   /\ count'[j] = count[j]
                   /\ store' = store
          /\ pc[j] = "report"
                => /\ pc'[j] \in {"report", "idle"}
                   /\ pc'[j] = "idle" => store' = store]_vars

\* C12, witness: on an empty store a job stands at its exit, the flag down.
StoppedOnEmptyBacklog ==
    \E j \in Jobs :
        /\ pc[j] = "report" /\ count[j] = 0
        /\ Len(store) = 0
        /\ ~IS_SENDING[proc[j]]

\* C13: while its flag is down a job selects no further record; the record
\* in flight gets its finalize or release write, which leaves it unclaimed;
\* and the job reaches its end unless the worker is started again.
CooperativeStop ==
    /\ [][\A j \in Jobs :
             (proc[j] # 0 /\ ~IS_SENDING[proc[j]] /\ pc[j] # "claim")
                 => pc'[j] # "claim"]_vars
    /\ [][\A j \in Jobs :
             (pc[j] = "finalize" /\ pc'[j] \in {"pace", "backoff"})
                 => store'[target_key[j]].processing_by = None]_vars
    /\ \A j \in Jobs :
          (proc[j] # 0 /\ ~IS_SENDING[proc[j]])
              ~> (proc[j] = 0 \/ IS_SENDING[proc[j]])

\* C13, witness: the flag went down while a record was in flight.
StoppedInFlight ==
    \E j \in Jobs : InFlight(j) /\ ~IS_SENDING[proc[j]]

\* C14: a job that is about to read the leads is not ended there: when the
\* read raises, the loop goes on.
FetchErrorFailsSoft ==
    [][\A j \in Jobs : AtFetch(j) => pc'[j] # "idle"]_vars

\* C15: without a template a started job goes to its report and from there
\* to its end with the flag down; it never reads the leads and leaves the
\* store as it was.
ConfigErrorBlocksRun ==
    [][\A j \in Jobs :
          /\ (pc[j] = "scheduled" /\ pc'[j] # "scheduled" /\ config = None)
                => pc'[j] = "noconfig" /\ store' = store
          /\ pc[j] = "noconfig"
                => /\ pc'[j] \in {"noconfig", "idle"}
                   /\ pc'[j] = "idle"
                         => ~IS_SENDING'[proc[j]] /\ store' = store]_vars

\* C15, witness: a job was started with no template in the store.
StartedWithoutTemplate ==
    \E j \in Jobs : pc[j] = "noconfig" /\ config = None

\* A step of rewrite_email_with_ai in job j: it returns, or one more attempt
\* has failed.
RewriteStep(j) ==
    /\ pc[j] \in {"rewrite", "rewrite_sleep"}
    /\ pc'[j] = "dispatch" \/ tries'[j] = tries[j] + 1

\* C16: a rewrite makes at most as many attempts as there are credentials;
\* each attempt uses the credential under the cursor and moves the cursor by
\* one, and nothing else moves the cursor; when every attempt has failed the
\* call returns the pair it was given, so that the job goes on to the
\* dispatch with the template text in which the application name stands, a
\* text that is never empty; no job ends inside the rewrite.
RewriteFallback ==
    [][/\ \A j \in Jobs :
            /\ tries'[j] <= GEMINI_KEYS
            /\ pc[j] \in {"rewrite", "rewrite_sleep"}
                  => pc'[j] \in {"rewrite", "rewrite_sleep", "dispatch"}
            /\ (RewriteStep(j) /\ tries[j] < GEMINI_KEYS)
                  => /\ CURRENT_KEY_INDEX'[proc[j]]
                           = (CURRENT_KEY_INDEX[proc[j]] + 1) % GEMINI_KEYS
                     /\ pc'[j] = "dispatch"
                           => api_key'[j]
                                 = CURRENT_KEY_INDEX[proc[j]] % GEMINI_KEYS
            /\ (RewriteStep(j) /\ tries[j] >= GEMINI_KEYS)
                  => LET lead == store[target_key[j]] IN
                     /\ pc'[j] = "dispatch"
                     /\ mail'[j].subject = OrigSub(lead)
                     /\ mail'[j].body = OrigBody(lead)
                     /\ Len(mail'[j].body) = Len(Template.body)
                     /\ \A i \in 1..Len(mail'[j].body) :
                           mail'[j].body[i] # "{app_name}"
                     /\ SubSeq(FinalBody(mail'[j].body), 1, Len(Template.body))
                           = OrigBody(lead)
                     /\ store' = store
       /\ CURRENT_KEY_INDEX' # CURRENT_KEY_INDEX
             => \E j \in Jobs : RewriteStep(j) /\ tries[j] < GEMINI_KEYS]_vars

\* C16, witness: with every credential tried, a job stands before the
\* dispatch of the first lead with the template text naming its application.
FallbackDispatched ==
    \E j \in Jobs :
        /\ pc[j] = "dispatch"
        /\ GEMINI_KEYS = NKeys
        /\ target_key[j] = 1
        /\ mail[j].body = <<"Installs", "for", "App", "today">>

\* C17: a send gives success exactly when the status code is 2xx, the body
\* parses and its status field says success; everything else gives a
\* failure and never an exception; one network call is made per send.
DispatchOutcomeMapping ==
    outcome # NoOutcome =>
        /\ outcome.result = "success"
              <=> (reply.code \in 200..299 /\ reply.body = "success")
        /\ outcome.result \in {"success", "error"}
        /\ outcome.calls = 1

SentLeads == {k \in DOMAIN store : store[k].status = "sent"}

\* The loop has ended with the flag down, every lead is sent, none is
\* claimed and the job's count is the number of leads.
Drained ==
    /\ ~IS_SENDING[1]
    /\ \E j \in Jobs : pc[j] = "report" /\ proc[j] = 1 /\ count[j] = Len(store)
    /\ \A k \in DOMAIN store :
          store[k].status = "sent" /\ store[k].processing_by = None

\* C18: a worker started on a backlog of unsent leads ends with the flag
\* down, every lead sent and unclaimed and its count equal to their number;
\* a lead is dispatched only while it is unsent and claimed by the job, the
\* finalization that follows marks it sent and counts it once, and a job's
\* count never exceeds the number of sent leads: each is dispatched once.
DrainTermination ==
    /\ (\E j \in Jobs : /\ pc[j] = "scheduled"
                        /\ \A k \in DOMAIN store :
                              /\ store[k].status = None
                              /\ store[k].processing_by = None)
          ~> Drained
    /\ [][\A j \in Jobs :
             /\ DispatchStep(j)
                   => /\ store[target_key[j]].status = None
                      /\ store[target_key[j]].processing_by = bot_id(proc[j])
             /\ (pc[j] = "finalize" /\ pc'[j] # "finalize")
                   => /\ store'[target_key[j]].status = "sent"
                      /\ count'[j] = count[j] + 1
                      /\ Cardinality(SentLeads') = Cardinality(SentLeads) + 1]_vars
    /\ [](\A j \in Jobs : count[j] <= Cardinality(SentLeads))

\* C18, witness: the largest backlog has been drained.
BacklogDrained == Drained /\ Len(store) = MaxLeads

\* Job j is inside the while loop of email_worker (lines 186-226).
InLoop(j) ==
    /\ proc[j] # 0
    /\ pc[j] \in {"loop", "claim", "rewrite", "rewrite_sleep", "dispatch",
                  "finalize", "pace", "backoff", "alldone"}

\* C19: in a process at most one worker loop is active at any time,
\* whatever the order of the start and stop signals.
SingleLoopPerProcess ==
    \A p \in Procs : Cardinality({j \in Jobs : InLoop(j) /\ proc[j] = p}) <= 1

\* C20: the release written after a failed dispatch never clears a
\* processing_by that names another worker.
ReleaseOnlyOwnLease ==
    [][\A j \in Jobs :
          FailureFinalizeStep(j)
             => store[target_key[j]].processing_by
                   \in {None, bot_id(proc[j])}]_vars

====
